---------------------------- MODULE Spec2Model ----------------------------
(***************************************************************************)
(* sandwine: one run of main() in src/sandwine/_main.py.                   *)
(*                                                                         *)
(* A string of the program is a sequence of one-character strings, so that *)
(* the program's string operations (comparison by code point, rstrip,      *)
(* startswith, split, join, concatenation) are computed as the code        *)
(* computes them.  An argument group is a sequence of strings and the      *)
(* command under construction is a sequence of groups, as in ArgvBuilder.  *)
(* An optional value (None or a value) is a sequence of length 0 or 1.     *)
(***************************************************************************)
EXTENDS Naturals, Sequences, FiniteSets, TLC

---------------------------------------------------------------------------
(* Strings *)

\* The printable ASCII characters in code-point order, from " " (32) on; the
\* grave accent (96), which no string of the program holds, is spelled out.
Ascii ==
  << " ", "!", "\"", "#", "$", "%", "&", "'", "(", ")", "*", "+", ",", "-", ".", "/",
     "0", "1", "2", "3", "4", "5", "6", "7", "8", "9", ":", ";", "<", "=", ">", "?",
     "@", "A", "B", "C", "D", "E", "F", "G", "H", "I", "J", "K", "L", "M", "N", "O",
     "P", "Q", "R", "S", "T", "U", "V", "W", "X", "Y", "Z", "[", "\\", "]", "^", "_",
     "grave", "a", "b", "c", "d", "e", "f", "g", "h", "i", "j", "k", "l", "m", "n", "o",
     "p", "q", "r", "s", "t", "u", "v", "w", "x", "y", "z", "{", "|", "}", "~" >>

OrdTable ==
  [c \in {Ascii[i] : i \in 1..Len(Ascii)} |->
     CHOOSE i \in 1..Len(Ascii) : Ascii[i] = c]

\* The rank of a character in code-point order.
Ord(c) == OrdTable[c]

RECURSIVE StrLessFrom(_, _, _)
StrLessFrom(a, b, i) ==
  IF i > Len(a) THEN i <= Len(b)
  ELSE IF i > Len(b) THEN FALSE
  ELSE IF a[i] = b[i] THEN StrLessFrom(a, b, i + 1)
  ELSE Ord(a[i]) < Ord(b[i])

\* a < b on Python strings: by the first differing code point, a proper
\* prefix before the longer string.
StrLess(a, b) == StrLessFrom(a, b, 1)

StrLeq(a, b) == a = b \/ StrLess(a, b)

\* s.startswith(p)
StartsWith(s, p) == Len(p) <= Len(s) /\ SubSeq(s, 1, Len(p)) = p

\* os.sep and os.pathsep on the platform bwrap runs on.
SEP == "/"

PATHSEP == ":"

RECURSIVE RStrip(_, _)
\* s.rstrip(c)
RStrip(s, c) ==
  IF s # << >> /\ s[Len(s)] = c THEN RStrip(SubSeq(s, 1, Len(s) - 1), c) ELSE s

single_trailing_sep(path) == RStrip(path, SEP) \o <<SEP>>

RECURSIVE SplitFrom(_, _, _, _)
SplitFrom(s, c, i, cur) ==
  IF i > Len(s) THEN <<cur>>
  ELSE IF s[i] = c THEN <<cur>> \o SplitFrom(s, c, i + 1, << >>)
  ELSE SplitFrom(s, c, i + 1, Append(cur, s[i]))

\* s.split(c)
Split(s, c) == SplitFrom(s, c, 1, << >>)

RECURSIVE Join(_, _)
\* c.join(parts)
Join(parts, c) ==
  IF parts = << >> THEN << >>
  ELSE IF Len(parts) = 1 THEN parts[1]
  ELSE parts[1] \o <<c>> \o Join(Tail(parts), c)

\* The positions of character c in s.
Positions(s, c) == {i \in 1..Len(s) : s[i] = c}

Last(S) == CHOOSE i \in S : \A j \in S : j <= i

RECURSIVE Dec(_)
\* The decimal rendering of a natural number (an f-string field).
Dec(n) ==
  IF n < 10 THEN <<Ascii[17 + n]>>
  ELSE Dec(n \div 10) \o <<Ascii[17 + (n % 10)]>>

---------------------------------------------------------------------------
(* Paths *)

RECURSIVE NormComps(_, _, _)
\* The loop of posixpath.normpath over the components of a path.
NormComps(comps, new_comps, initial_slashes) ==
  IF comps = << >> THEN new_comps
  ELSE LET comp == Head(comps)
           n == Len(new_comps)
       IN IF comp = << >> \/ comp = <<".">>
          THEN NormComps(Tail(comps), new_comps, initial_slashes)
          ELSE IF comp # <<".", ".">>
                  \/ (initial_slashes = 0 /\ n = 0)
                  \/ (n > 0 /\ new_comps[n] = <<".", ".">>)
          THEN NormComps(Tail(comps), Append(new_comps, comp), initial_slashes)
          ELSE IF n > 0
          THEN NormComps(Tail(comps), SubSeq(new_comps, 1, n - 1), initial_slashes)
          ELSE NormComps(Tail(comps), new_comps, initial_slashes)

\* posixpath.normpath
normpath(path) ==
  IF path = << >> THEN <<".">>
  ELSE LET initial_slashes ==
             IF ~StartsWith(path, <<SEP>>) THEN 0
             ELSE IF StartsWith(path, <<SEP, SEP>>) /\ ~StartsWith(path, <<SEP, SEP, SEP>>)
             THEN 2 ELSE 1
           joined == Join(NormComps(Split(path, SEP), << >>, initial_slashes), SEP)
           out == [i \in 1..initial_slashes |-> SEP] \o joined
       IN IF out = << >> THEN <<".">> ELSE out

\* posixpath.abspath, in working directory cwd
abspath(path, cwd) ==
  IF StartsWith(path, <<SEP>>) THEN normpath(path)
  ELSE normpath(cwd \o <<SEP>> \o path)

\* Whether directory path dir is path p or an ancestor of it.
Under(p, dir) == StartsWith(single_trailing_sep(p), single_trailing_sep(dir))

ROOT_DIR == <<SEP>>

\* A normalized absolute path together with its ancestors.
WithAncestors(p) ==
  {ROOT_DIR} \cup {SubSeq(p, 1, i) : i \in {j \in 1..Len(p) : j = Len(p) \/ p[j + 1] = SEP}}

---------------------------------------------------------------------------
(* String literals of _main.py *)

\* '/'
ROOT == <<"/">>

\* '/bin'
BIN == <<"/", "b", "i", "n">>

\* '/dev'
DEV == <<"/", "d", "e", "v">>

\* '/dev/dri'
DEV_DRI == <<"/", "d", "e", "v", "/", "d", "r", "i">>

\* '/etc'
ETC == <<"/", "e", "t", "c">>

\* '/lib'
LIB == <<"/", "l", "i", "b">>

\* '/lib32'
LIB32 == <<"/", "l", "i", "b", "3", "2">>

\* '/lib64'
LIB64 == <<"/", "l", "i", "b", "6", "4">>

\* '/proc'
PROC == <<"/", "p", "r", "o", "c">>

\* '/sys'
SYS == <<"/", "s", "y", "s">>

\* '/tmp'
TMP == <<"/", "t", "m", "p">>

\* '/usr'
USR == <<"/", "u", "s", "r">>

\* '/run/NetworkManager/resolv.conf'
RESOLV_NETWORKMANAGER ==
  << "/", "r", "u", "n", "/", "N", "e", "t", "w", "o", "r", "k", "M", "a",
     "n", "a", "g", "e", "r", "/", "r", "e", "s", "o", "l", "v", ".", "c",
     "o", "n", "f" >>

\* '/run/systemd/resolve/stub-resolv.conf'
RESOLV_SYSTEMD ==
  << "/", "r", "u", "n", "/", "s", "y", "s", "t", "e", "m", "d", "/", "r",
     "e", "s", "o", "l", "v", "e", "/", "s", "t", "u", "b", "-", "r", "e",
     "s", "o", "l", "v", ".", "c", "o", "n", "f" >>

\* '/tmp/.X11-unix/X'
X11_UNIX_SOCKET_PREFIX ==
  << "/", "t", "m", "p", "/", ".", "X", "1", "1", "-", "u", "n", "i", "x",
     "/", "X" >>

\* '/run/user/'
RUN_USER == <<"/", "r", "u", "n", "/", "u", "s", "e", "r", "/">>

\* '/pulse/native'
PULSE_NATIVE == <<"/", "p", "u", "l", "s", "e", "/", "n", "a", "t", "i", "v", "e">>

\* 'unix:'
UNIX_COLON == <<"u", "n", "i", "x", ":">>

\* '~'
TILDE == <<"~">>

\* '~/.wine'
TILDE_DOT_WINE == <<"~", "/", ".", "w", "i", "n", "e">>

\* '.exe'
DOT_EXE_LOWER == <<".", "e", "x", "e">>

\* '.EXE'
DOT_EXE_UPPER == <<".", "E", "X", "E">>

\* '/usr/lib/wine'
USR_LIB_WINE == <<"/", "u", "s", "r", "/", "l", "i", "b", "/", "w", "i", "n", "e">>

\* 'ro'
RO == <<"r", "o">>

\* 'rw'
RW == <<"r", "w">>

\* 'bwrap'
BWRAP == <<"b", "w", "r", "a", "p">>

\* '--disable-userns'
DISABLE_USERNS == <<"-", "-", "d", "i", "s", "a", "b", "l", "e", "-", "u", "s", "e", "r", "n", "s">>

\* '--die-with-parent'
DIE_WITH_PARENT ==
  << "-", "-", "d", "i", "e", "-", "w", "i", "t", "h", "-", "p", "a", "r",
     "e", "n", "t" >>

\* '--hostname'
OPT_HOSTNAME == <<"-", "-", "h", "o", "s", "t", "n", "a", "m", "e">>

\* '--unshare-user'
UNSHARE_USER == <<"-", "-", "u", "n", "s", "h", "a", "r", "e", "-", "u", "s", "e", "r">>

\* '--unshare-all'
UNSHARE_ALL == <<"-", "-", "u", "n", "s", "h", "a", "r", "e", "-", "a", "l", "l">>

\* '--share-net'
SHARE_NET == <<"-", "-", "s", "h", "a", "r", "e", "-", "n", "e", "t">>

\* '--tmpfs'
OPT_TMPFS == <<"-", "-", "t", "m", "p", "f", "s">>

\* '--dev'
OPT_DEV == <<"-", "-", "d", "e", "v">>

\* '--proc'
OPT_PROC == <<"-", "-", "p", "r", "o", "c">>

\* '--ro-bind'
OPT_RO_BIND == <<"-", "-", "r", "o", "-", "b", "i", "n", "d">>

\* '--bind'
OPT_BIND == <<"-", "-", "b", "i", "n", "d">>

\* '--dev-bind'
OPT_DEV_BIND == <<"-", "-", "d", "e", "v", "-", "b", "i", "n", "d">>

\* '--clearenv'
CLEARENV == <<"-", "-", "c", "l", "e", "a", "r", "e", "n", "v">>

\* '--setenv'
SETENV == <<"-", "-", "s", "e", "t", "e", "n", "v">>

\* '--'
DASHDASH == <<"-", "-">>

\* 'sh'
SH == <<"s", "h">>

\* '-c'
DASH_C == <<"-", "c">>

\* 'wineserver -p0 && "$0" "$@" ; ret=$? ; wineserver -k ; exit ${ret}'
WINESERVER_SCRIPT ==
  << "w", "i", "n", "e", "s", "e", "r", "v", "e", "r", " ", "-", "p", "0",
     " ", "&", "&", " ", "\"", "$", "0", "\"", " ", "\"", "$", "@", "\"", " ",
     ";", " ", "r", "e", "t", "=", "$", "?", " ", ";", " ", "w", "i", "n",
     "e", "s", "e", "r", "v", "e", "r", " ", "-", "k", " ", ";", " ", "e",
     "x", "i", "t", " ", "$", "{", "r", "e", "t", "}" >>

\* 'winecfg && exec "$0" "$@"'
WINECFG_SCRIPT ==
  << "w", "i", "n", "e", "c", "f", "g", " ", "&", "&", " ", "e", "x", "e",
     "c", " ", "\"", "$", "0", "\"", " ", "\"", "$", "@", "\"" >>

\* '"$0" "$@" || exec "$0" "$@"'
SECOND_TRY_SCRIPT ==
  << "\"", "$", "0", "\"", " ", "\"", "$", "@", "\"", " ", "|", "|", " ", "e",
     "x", "e", "c", " ", "\"", "$", "0", "\"", " ", "\"", "$", "@", "\"" >>

\* 'wine'
WINE == <<"w", "i", "n", "e">>

\* 'script'
SCRIPT == <<"s", "c", "r", "i", "p", "t">>

\* '-e'
DASH_E == <<"-", "e">>

\* '-q'
DASH_Q == <<"-", "q">>

\* 'exec '
EXEC_SPACE == <<"e", "x", "e", "c", " ">>

\* '/dev/null'
DEV_NULL == <<"/", "d", "e", "v", "/", "n", "u", "l", "l">>

\* 'true'
TRUE_CMD == <<"t", "r", "u", "e">>

\* 'HOME'
ENV_HOME == <<"H", "O", "M", "E">>

\* 'TERM'
ENV_TERM == <<"T", "E", "R", "M">>

\* 'USER'
ENV_USER == <<"U", "S", "E", "R">>

\* 'WINEDEBUG'
ENV_WINEDEBUG == <<"W", "I", "N", "E", "D", "E", "B", "U", "G">>

\* 'container'
ENV_CONTAINER == <<"c", "o", "n", "t", "a", "i", "n", "e", "r">>

\* 'sandwine'
SANDWINE == <<"s", "a", "n", "d", "w", "i", "n", "e">>

\* 'HOSTNAME'
ENV_HOSTNAME == <<"H", "O", "S", "T", "N", "A", "M", "E">>

\* 'PULSE_SERVER'
ENV_PULSE_SERVER == <<"P", "U", "L", "S", "E", "_", "S", "E", "R", "V", "E", "R">>

\* 'DISPLAY'
ENV_DISPLAY == <<"D", "I", "S", "P", "L", "A", "Y">>

\* 'PATH'
ENV_PATH == <<"P", "A", "T", "H">>

---------------------------------------------------------------------------
(* Data model *)

None == << >>

Some(v) == <<v>>

\* @dataclass MountTask: mode, target, source = None, required = True
MountTask(mode, target, source, required) ==
  [mode |-> mode, target |-> target, source |-> source, required |-> required]

\* The three bind members of MountMode.
BindModes == {"BIND_RO", "BIND_RW", "BIND_DEV"}

\* The result of parse_path_colon_access: ok is FALSE where it raises ValueError.
parse_path_colon_access(candidate) ==
  IF Positions(candidate, ":") = {}
  THEN [ok |-> FALSE, path |-> << >>, access |-> "none"]
  ELSE LET k == Last(Positions(candidate, ":"))
           path == SubSeq(candidate, 1, k - 1)
           access_mode_candidate == SubSeq(candidate, k + 1, Len(candidate))
       IN IF access_mode_candidate = RO
          THEN [ok |-> TRUE, path |-> path, access |-> "READ_ONLY"]
          ELSE IF access_mode_candidate = RW
          THEN [ok |-> TRUE, path |-> path, access |-> "READ_WRITE"]
          ELSE [ok |-> FALSE, path |-> << >>, access |-> "none"]

\* BIND_RW if the access is READ_WRITE else BIND_RO
BindModeOf(access) == IF access = "READ_WRITE" THEN "BIND_RW" ELSE "BIND_RO"

\* environ.get(var): the host environment is a function from names to values.
EnvGet(environ, var) == IF var \in DOMAIN environ THEN Some(environ[var]) ELSE None

\* posixpath.expanduser of a path that names no user: "~" is $HOME without
\* trailing separators.
expanduser(path, environ) ==
  IF ~StartsWith(path, TILDE) THEN path
  ELSE LET out == RStrip(environ[ENV_HOME], SEP) \o SubSeq(path, 2, Len(path))
       IN IF out = << >> THEN ROOT ELSE out

\* os.path.exists on the host file system, the set of paths that exist.
exists(fs, path) == path \in fs

\* os.makedirs(path, exist_ok=True): the directory and its missing ancestors.
makedirs(fs, path, cwd) == fs \cup WithAncestors(abspath(path, cwd))

\* os.path.realpath: the absolute normal form, with a symbolic link of the
\* host that is the path or an ancestor of it replaced by what it points to.
realpath(path, cwd, links) ==
  LET a == abspath(path, cwd)
      hit == {l \in links : Under(a, l[1])}
  IN IF hit = {} THEN a
     ELSE LET l == CHOOSE x \in hit : TRUE
          IN l[2] \o SubSeq(a, Len(l[1]) + 1, Len(a))

\* X11Mode(config.x11) != X11Mode.NONE
X11Enabled(config) == config.x11 # "NONE"

\* X11Display(n).get_unix_socket()
get_unix_socket(display_number) == X11_UNIX_SOCKET_PREFIX \o Dec(display_number)

x11_unix_socket(config) == get_unix_socket(config.x11_display_number[1])

\* os.getuid() of the invoking user.
HostUid == 1000

pulseaudio_socket == RUN_USER \o Dec(HostUid) \o PULSE_NATIVE

\* The unsafe-character test of shlex.quote: everything but [A-Za-z0-9_@%+=:,./-].
SafeChar(c) ==
  \/ Ord(c) \in Ord("a")..Ord("z")
  \/ Ord(c) \in Ord("A")..Ord("Z")
  \/ Ord(c) \in Ord("0")..Ord("9")
  \/ c \in {"_", "@", "%", "+", "=", ":", ",", ".", "/", "-"}

RECURSIVE ReplaceQuote(_)
\* s.replace("'", "'\"'\"'")
ReplaceQuote(s) ==
  IF s = << >> THEN << >>
  ELSE (IF Head(s) = "'" THEN <<"'", "\"", "'", "\"", "'">> ELSE <<Head(s)>>)
       \o ReplaceQuote(Tail(s))

shlex_quote(s) ==
  IF s = << >> THEN <<"'", "'">>
  ELSE IF \A i \in 1..Len(s) : SafeChar(s[i]) THEN s
  ELSE <<"'">> \o ReplaceQuote(s) \o <<"'">>

shlex_join(words) == Join([i \in 1..Len(words) |-> shlex_quote(words[i])], " ")

---------------------------------------------------------------------------
(* create_bwrap_argv *)

\* The baseline mount_tasks list.
BaselineMountTasks(my_home) ==
  << MountTask("TMPFS", ROOT, None, TRUE),
     MountTask("BIND_RO", BIN, None, TRUE),
     MountTask("DEVTMPFS", DEV, None, TRUE),
     MountTask("BIND_DEV", DEV_DRI, None, TRUE),
     MountTask("BIND_RO", ETC, None, TRUE),
     MountTask("BIND_RO", LIB, None, TRUE),
     MountTask("BIND_RO", LIB32, None, FALSE),
     MountTask("BIND_RO", LIB64, None, TRUE),
     MountTask("PROC", PROC, None, TRUE),
     MountTask("BIND_RO", SYS, None, TRUE),
     MountTask("TMPFS", TMP, None, TRUE),
     MountTask("BIND_RO", USR, None, TRUE),
     MountTask("TMPFS", my_home, None, TRUE) >>

\* Networking
NetworkMountTasks(config) ==
  IF config.network
  THEN << MountTask("BIND_RO", RESOLV_NETWORKMANAGER, None, FALSE),
          MountTask("BIND_RO", RESOLV_SYSTEMD, None, FALSE) >>
  ELSE << >>

\* Sound
SoundMountTasks(config) ==
  IF config.pulseaudio THEN <<MountTask("BIND_RW", pulseaudio_socket, None, TRUE)>>
  ELSE << >>

\* X11
X11MountTasks(config) ==
  IF X11Enabled(config) THEN <<MountTask("BIND_RW", x11_unix_socket(config), None, TRUE)>>
  ELSE << >>

\* run_winecfg as first assigned.
RunWinecfgInitial(config) ==
  X11Enabled(config) /\ (config.configure \/ config.dotwine = None)

\* run_winecfg left as first assigned.
RunWinecfgKept(config) == RunWinecfgInitial(config)

\* run_winecfg as assigned once --dotwine's path was found missing and created.
RunWinecfgAfterCreate(config) == TRUE

\* Wine: the profile directory's mount task, run_winecfg and the host file
\* system after os.makedirs; ok is FALSE where --dotwine does not parse.
WineSection(config, fs, environ, cwd) ==
  LET dotwine_target_path == expanduser(TILDE_DOT_WINE, environ)
  IN IF config.dotwine # None
     THEN LET parsed == parse_path_colon_access(config.dotwine[1])
              dotwine_source_path == parsed.path
              missing == ~exists(fs, abspath(dotwine_source_path, cwd))
          IN IF ~parsed.ok
             THEN [ok |-> FALSE, tasks |-> << >>, run_winecfg |-> FALSE, fs |-> fs]
             ELSE [ok |-> TRUE,
                   tasks |-> <<MountTask(BindModeOf(parsed.access), dotwine_target_path,
                                         Some(dotwine_source_path), TRUE)>>,
                   run_winecfg |-> IF missing THEN RunWinecfgAfterCreate(config)
                                   ELSE RunWinecfgInitial(config),
                   fs |-> IF missing THEN makedirs(fs, dotwine_source_path, cwd) ELSE fs]
     ELSE [ok |-> TRUE,
           tasks |-> <<MountTask("TMPFS", dotwine_target_path, None, TRUE)>>,
           run_winecfg |-> RunWinecfgInitial(config),
           fs |-> fs]

RECURSIVE ExtraBindTasks(_, _)
\* Extra binds: one required bind per --pass, up to the first that does not parse.
ExtraBindTasks(extra_binds, cwd) ==
  IF extra_binds = << >> THEN [ok |-> TRUE, tasks |-> << >>]
  ELSE LET parsed == parse_path_colon_access(Head(extra_binds))
           rest == ExtraBindTasks(Tail(extra_binds), cwd)
       IN IF ~parsed.ok THEN [ok |-> FALSE, tasks |-> << >>]
          ELSE [ok |-> rest.ok,
                tasks |-> <<MountTask(BindModeOf(parsed.access),
                                      abspath(parsed.path, cwd), None, TRUE)>>
                          \o rest.tasks]

\* Program
ProgramMountTasks(config, cwd) ==
  IF config.argv_0 # None /\ Positions(config.argv_0[1], SEP) # {}
  THEN LET real_argv_0 == abspath(config.argv_0[1], cwd)
       IN << MountTask("BIND_RO", real_argv_0, None, FALSE),
             MountTask("BIND_RO", real_argv_0 \o DOT_EXE_LOWER, None, FALSE),
             MountTask("BIND_RO", real_argv_0 \o DOT_EXE_UPPER, None, FALSE) >>
  ELSE << >>

\* key=attrgetter('target')
MountSortKey(mount_task) == mount_task.target

RECURSIVE InsertByKeyDescending(_, _)
\* One step of a stable sort by descending key.
InsertByKeyDescending(sorted, t) ==
  IF sorted = << >> THEN <<t>>
  ELSE IF StrLess(MountSortKey(Head(sorted)), MountSortKey(t)) THEN <<t>> \o sorted
  ELSE <<Head(sorted)>> \o InsertByKeyDescending(Tail(sorted), t)

RECURSIVE InsertByKey(_, _)
\* One step of a stable sort: t goes behind every task whose key is not greater.
InsertByKey(sorted, t) ==
  IF sorted = << >> THEN <<t>>
  ELSE IF StrLess(MountSortKey(t), MountSortKey(Head(sorted))) THEN <<t>> \o sorted
  ELSE <<Head(sorted)>> \o InsertByKey(Tail(sorted), t)

RECURSIVE StableSort(_)
StableSort(tasks) ==
  IF tasks = << >> THEN << >>
  ELSE InsertByKey(StableSort(SubSeq(tasks, 1, Len(tasks) - 1)), tasks[Len(tasks)])

\* The mount tasks in the order of their insertion.
InsertionOrder(mount_tasks) == mount_tasks

\* sorted(mount_tasks, key=attrgetter('target'))
SortedMountTasks(mount_tasks) == StableSort(mount_tasks)

\* The source a bind task is checked and mounted with.
SourceOf(mount_task) ==
  IF mount_task.source = None THEN mount_task.target ELSE mount_task.source[1]

\* A source check that every task passes.
NoSourceMissing(mount_task, config, fs, cwd) == FALSE

\* The condition of line 300: the source is missing and the task is not the
\* exempted display socket.
MissingSource(mount_task, config, fs, cwd) ==
  /\ ~exists(fs, abspath(SourceOf(mount_task), cwd))
  /\ ~(X11Enabled(config) /\ mount_task.target = x11_unix_socket(config))

\* A loop that skips every task whose source is missing.
SkipMissingSource(mount_task) == "continue"

\* What a missing source does to the loop: "exit" (sys.exit(1)) or "continue".
OnMissingSource(mount_task) == IF mount_task.required THEN "exit" ELSE "continue"

\* The flag group of a mount task that is not dropped.
MountGroup(mount_task) ==
  CASE mount_task.mode = "TMPFS" -> <<OPT_TMPFS, mount_task.target>>
    [] mount_task.mode = "DEVTMPFS" -> <<OPT_DEV, mount_task.target>>
    [] mount_task.mode = "PROC" -> <<OPT_PROC, mount_task.target>>
    [] mount_task.mode = "BIND_RO" -> <<OPT_RO_BIND, SourceOf(mount_task), mount_task.target>>
    [] mount_task.mode = "BIND_RW" -> <<OPT_BIND, SourceOf(mount_task), mount_task.target>>
    [] mount_task.mode = "BIND_DEV" -> <<OPT_DEV_BIND, SourceOf(mount_task), mount_task.target>>

RECURSIVE MountLoop(_, _, _, _, _, _)
\* The loop over sorted_mount_tasks from task i on: the groups added, whether
\* it ended in sys.exit(1), and the tasks with the sources it filled in.
MountLoop(tasks, i, groups, config, fs, cwd) ==
  IF i > Len(tasks) THEN [exit |-> FALSE, groups |-> groups, tasks |-> tasks]
  ELSE LET t == tasks[i]
           filled == IF t.mode \in BindModes
                     THEN [tasks EXCEPT ![i].source = Some(SourceOf(t))]
                     ELSE tasks
       IN IF t.mode \in BindModes /\ MissingSource(t, config, fs, cwd)
          THEN IF OnMissingSource(t) = "exit"
               THEN [exit |-> TRUE, groups |-> groups, tasks |-> filled]
               ELSE MountLoop(filled, i + 1, groups, config, fs, cwd)
          ELSE MountLoop(filled, i + 1, Append(groups, MountGroup(t)), config, fs, cwd)

\* The mount tasks the PATH filter reads.
PathFilterTasks(sorted_mount_tasks) == sorted_mount_tasks

\* Filter ${PATH}
AvailablePaths(sorted_mount_tasks, environ, cwd, links) ==
  LET candidate_paths == Split(environ[ENV_PATH], PATHSEP) \o <<USR_LIB_WINE>>
      real == [k \in 1..Len(candidate_paths) |-> realpath(candidate_paths[k], cwd, links)]
      tasks == PathFilterTasks(sorted_mount_tasks)
      keep(candidate_path) ==
        \E k \in 1..Len(tasks) :
          /\ StartsWith(single_trailing_sep(candidate_path),
                        single_trailing_sep(tasks[k].target))
          /\ tasks[k].mode \in BindModes
  IN SelectSeq(real, keep)

\* hex(d)[2:] for d in 0..15
HexDigit(d) == <<"0", "1", "2", "3", "4", "5", "6", "7", "8", "9", "a", "b", "c", "d", "e", "f">>[d + 1]

\* random_hostname, given the twelve draws of random.randint(0, 15)
random_hostname(draws) == [i \in 1..Len(draws) |-> HexDigit(draws[i])]

\* One item of env_tasks: a name and a value or None.
EnvTask(name, value) == [name |-> name, value |-> value]

\* env_tasks in insertion order; every name is assigned once.
EnvTasks(config, hostname, available_paths) ==
  << EnvTask(ENV_HOME, None), EnvTask(ENV_TERM, None), EnvTask(ENV_USER, None),
     EnvTask(ENV_WINEDEBUG, None), EnvTask(ENV_CONTAINER, Some(SANDWINE)),
     EnvTask(ENV_HOSTNAME, Some(hostname)) >>
  \o (IF config.pulseaudio
      THEN <<EnvTask(ENV_PULSE_SERVER, Some(UNIX_COLON \o pulseaudio_socket))>>
      ELSE << >>)
  \o (IF X11Enabled(config)
      THEN <<EnvTask(ENV_DISPLAY, Some(<<":">> \o Dec(config.x11_display_number[1])))>>
      ELSE << >>)
  \o <<EnvTask(ENV_PATH, Some(Join(available_paths, PATHSEP)))>>

RECURSIVE InsertByName(_, _)
InsertByName(sorted, e) ==
  IF sorted = << >> THEN <<e>>
  ELSE IF StrLess(e.name, Head(sorted).name) THEN <<e>> \o sorted
  ELSE <<Head(sorted)>> \o InsertByName(Tail(sorted), e)

RECURSIVE SortedEnvTasks(_)
\* sorted(env_tasks.items(), key=itemgetter(0))
SortedEnvTasks(env_tasks) ==
  IF env_tasks = << >> THEN << >>
  ELSE InsertByName(SortedEnvTasks(SubSeq(env_tasks, 1, Len(env_tasks) - 1)),
                    env_tasks[Len(env_tasks)])

RECURSIVE EnvGroups(_, _)
\* One --setenv group per variable that has a value.
EnvGroups(sorted_env_tasks, environ) ==
  IF sorted_env_tasks = << >> THEN << >>
  ELSE LET e == Head(sorted_env_tasks)
           env_value == IF e.value = None THEN EnvGet(environ, e.name) ELSE e.value
       IN (IF env_value = None THEN << >> ELSE <<<<SETENV, e.name, env_value[1]>>>>)
          \o EnvGroups(Tail(sorted_env_tasks), environ)

\* unshare_args
UnshareArgs(config) ==
  <<UNSHARE_USER, UNSHARE_ALL>> \o (IF config.network THEN <<SHARE_NET>> ELSE << >>)

\* Wrap with wineserver
WineserverWrapper(config) ==
  IF config.with_wine THEN <<<<SH, DASH_C, WINESERVER_SCRIPT>>>> ELSE << >>

\* Add winecfg
WinecfgWrapper(config, run_winecfg) ==
  IF run_winecfg /\ config.with_wine THEN <<<<SH, DASH_C, WINECFG_SCRIPT>>>> ELSE << >>

\* Add second try
SecondTryWrapper(config) ==
  IF config.second_try THEN <<<<SH, DASH_C, SECOND_TRY_SCRIPT>>>> ELSE << >>

\* Add Wine and PTY
InnerGroup(config) ==
  IF config.argv_0 # None
  THEN LET inner_argv == (IF config.with_wine THEN <<WINE, config.argv_0[1]>>
                          ELSE <<config.argv_0[1]>>) \o config.argv_1_plus
       IN IF config.with_pty
          THEN <<SCRIPT, DASH_E, DASH_Q, DASH_C, EXEC_SPACE \o shlex_join(inner_argv), DEV_NULL>>
          ELSE inner_argv
  ELSE <<TRUE_CMD>>

\* The groups added before the mount stack.
HeadGroups(config, hostname) ==
  << <<BWRAP>>, <<DISABLE_USERNS>>, <<DIE_WITH_PARENT>>, <<OPT_HOSTNAME, hostname>>,
     UnshareArgs(config) >>

\* The groups added after the mount stack, with the retry wrapper outermost.
RetryOutermost(config, environ, hostname, run_winecfg, available_paths) ==
  <<<<CLEARENV>>>>
  \o EnvGroups(SortedEnvTasks(EnvTasks(config, hostname, available_paths)), environ)
  \o <<<<DASHDASH>>>>
  \o SecondTryWrapper(config)
  \o WineserverWrapper(config)
  \o WinecfgWrapper(config, run_winecfg)
  \o <<InnerGroup(config)>>

\* The groups added after the mount stack.
TailGroups(config, environ, hostname, run_winecfg, available_paths) ==
  <<<<CLEARENV>>>>
  \o EnvGroups(SortedEnvTasks(EnvTasks(config, hostname, available_paths)), environ)
  \o <<<<DASHDASH>>>>
  \o WineserverWrapper(config)
  \o WinecfgWrapper(config, run_winecfg)
  \o SecondTryWrapper(config)
  \o <<InnerGroup(config)>>

\* create_bwrap_argv: outcome "ok" with the groups of the ArgvBuilder returned,
\* "exit" where the mount loop ends in sys.exit(1), "ValueError" where a
\* PATH:{ro,rw} value does not parse; fs is the host file system it leaves.
create_bwrap_argv(config, fs, environ, cwd, links, hostname) ==
  LET my_home == expanduser(TILDE, environ)
      wine == WineSection(config, fs, environ, cwd)
      extra == ExtraBindTasks(config.extra_binds, cwd)
      mount_tasks ==
        BaselineMountTasks(my_home) \o NetworkMountTasks(config) \o SoundMountTasks(config)
        \o X11MountTasks(config) \o wine.tasks \o extra.tasks
        \o ProgramMountTasks(config, cwd)
      sorted_mount_tasks == SortedMountTasks(mount_tasks)
      loop == MountLoop(sorted_mount_tasks, 1, << >>, config, wine.fs, cwd)
      available_paths == AvailablePaths(loop.tasks, environ, cwd, links)
      failed(outcome, fs_after) ==
        [outcome |-> outcome, groups |-> << >>, mount_tasks |-> << >>,
         sorted_mount_tasks |-> << >>, run_winecfg |-> FALSE, fs |-> fs_after]
  IN IF ~wine.ok THEN failed("ValueError", fs)
     ELSE IF ~extra.ok THEN failed("ValueError", wine.fs)
     ELSE IF loop.exit
     THEN [outcome |-> "exit", groups |-> << >>, mount_tasks |-> mount_tasks,
           sorted_mount_tasks |-> loop.tasks, run_winecfg |-> wine.run_winecfg,
           fs |-> wine.fs]
     ELSE [outcome |-> "ok",
           groups |-> HeadGroups(config, hostname) \o loop.groups
                      \o TailGroups(config, environ, hostname, wine.run_winecfg,
                                    available_paths),
           mount_tasks |-> mount_tasks, sorted_mount_tasks |-> loop.tasks,
           run_winecfg |-> wine.run_winecfg, fs |-> wine.fs]

RECURSIVE iter_flat(_)
\* ArgvBuilder.iter_flat
iter_flat(groups) ==
  IF groups = << >> THEN << >> ELSE Head(groups) \o iter_flat(Tail(groups))

---------------------------------------------------------------------------
(* The host and the command line of one run *)

\* The number of --pass options on the command line.
MaxBinds == 2

\* $HOME and the working directory of the invoking user.
HostHome == <<"/", "h", "o", "m", "e", "/", "u">>

HostCwd == <<"/", "o", "p", "t", "/", "a">>

\* The path --dotwine names: '/data/w'
DotwineDir == <<"/", "d", "a", "t", "a", "/", "w">>

\* The program given as './x' from the working directory: '/opt/a/x'
ProgramPath == HostCwd \o <<"/", "x">>

\* Symbolic links of the host: /bin -> /usr/bin, /usr/local/bin -> /opt/a/bin
HostLinks ==
  { << BIN, USR \o BIN >>,
    << <<"/", "u", "s", "r", "/", "l", "o", "c", "a", "l", "/", "b", "i", "n">>,
       HostCwd \o BIN >> }

\* Paths every host of the model has; display :0 is the host's own.
BaseFs ==
  UNION {WithAncestors(p) :
           p \in {BIN, DEV_DRI, ETC, LIB, LIB64, PROC, SYS, TMP, USR \o BIN, USR_LIB_WINE,
                  HostHome, RESOLV_SYSTEMD, get_unix_socket(0)}}

\* Paths a host may or may not have.
VolatilePaths ==
  {LIB32, HostCwd, ProgramPath, ProgramPath \o DOT_EXE_LOWER, DotwineDir, pulseaudio_socket}

HostFileSystems ==
  {BaseFs \cup UNION {WithAncestors(p) : p \in S} : S \in SUBSET VolatilePaths}

\* $PATH of the host: '/usr/local/bin:/usr/bin:/bin:/home/u/bin:/lib32/bin'
HostPath ==
  Join(<< <<"/", "u", "s", "r", "/", "l", "o", "c", "a", "l", "/", "b", "i", "n">>,
          USR \o BIN, BIN, HostHome \o BIN, LIB32 \o BIN >>, PATHSEP)

\* os.environ, with and without WINEDEBUG=warn.
HostEnvirons ==
  LET base == ENV_HOME :> HostHome @@ ENV_TERM :> <<"x", "t", "e", "r", "m">>
              @@ ENV_USER :> <<"u">> @@ ENV_PATH :> HostPath
  IN {base, base @@ ENV_WINEDEBUG :> <<"w", "a", "r", "n">>}

\* The twelve draws of random.randint(0, 15) in random_hostname.
RandomDraws == {<<0, 1, 2, 3, 4, 5, 10, 11, 12, 13, 14, 15>>}

\* Values of --pass: '/opt/a/:ro', '/home:rw', and '/opt/a' with no access mode.
PassValues ==
  { HostCwd \o <<"/", ":", "r", "o">>,
    <<"/", "h", "o", "m", "e", ":", "r", "w">>,
    HostCwd }

PassLists == UNION {[1..k -> PassValues] : k \in 0..MaxBinds}

\* The namespace parse_command_line returns.
Config(x11, network, pulseaudio, dotwine, extra_binds, configure, with_pty, with_wine, second_try, argv_0, argv_1_plus) ==
  [x11 |-> x11, network |-> network, pulseaudio |-> pulseaudio, dotwine |-> dotwine,
   extra_binds |-> extra_binds, configure |-> configure, with_pty |-> with_pty,
   with_wine |-> with_wine, second_try |-> second_try, argv_0 |-> argv_0,
   argv_1_plus |-> argv_1_plus, x11_display_number |-> None]

\* PROGRAM [ARG ..] where the mount plan varies: none, './x', and the socket
\* of the first unused display.
MountPrograms ==
  { <<None, << >> >>,
    <<Some(<<".", "/", "x">>), << >> >>,
    <<Some(get_unix_socket(1)), << >> >> }

\* PROGRAM [ARG ..] where the wrappers vary: none, 'notepad.exe', './x my\ file.txt'
WrapperPrograms ==
  { <<None, << >> >>,
    <<Some(<<"n", "o", "t", "e", "p", "a", "d", ".", "e", "x", "e">>), << >> >>,
    <<Some(<<".", "/", "x">>), <<<<"m", "y", " ", "f", "i", "l", "e", ".", "t", "x", "t">>>> >> }

\* Command lines that vary the mount plan.
MountConfigs ==
  { Config(x11, network, pulseaudio, dotwine, extra_binds, FALSE, FALSE, FALSE, FALSE,
           prog[1], prog[2]) :
      x11 \in {"NONE", "XEPHYR"}, network \in BOOLEAN, pulseaudio \in BOOLEAN,
      dotwine \in {None, Some(DotwineDir \o <<PATHSEP>> \o RW)},
      extra_binds \in PassLists, prog \in MountPrograms }

\* Command lines that vary the wrappers.
WrapperConfigs ==
  { Config(x11, FALSE, FALSE, dotwine, << >>, flags[1], flags[2], flags[3], flags[4],
           prog[1], prog[2]) :
      x11 \in {"NONE", "AUTO", "XPRA", "HOST"},
      dotwine \in {None, Some(DotwineDir \o <<PATHSEP>> \o RW),
                   Some(DotwineDir \o <<PATHSEP>> \o RO), Some(DotwineDir)},
      flags \in BOOLEAN \X BOOLEAN \X BOOLEAN \X BOOLEAN,
      prog \in WrapperPrograms }

\* The host with every path of the model.
FullFs == BaseFs \cup UNION {WithAncestors(p) : p \in VolatilePaths}

\* A host differs from the full one only where the command line reads the
\* difference.
HostFits(c, host_fs) ==
  /\ (c.dotwine = None => DotwineDir \in host_fs)
  /\ (~c.pulseaudio => pulseaudio_socket \in host_fs)
  /\ (c.argv_0 # Some(<<".", "/", "x">>) =>
        {ProgramPath, ProgramPath \o DOT_EXE_LOWER} \subseteq host_fs)

\* The hosts a command line that varies the mount plan is run on.
MountHosts(c) == {host_fs \in HostFileSystems : HostFits(c, host_fs)}

\* The hosts a command line that varies the wrappers is run on: the full one,
\* and the one where the path --dotwine names does not exist yet.
WrapperHosts(c) ==
  {FullFs} \cup (IF c.dotwine = None THEN {} ELSE {FullFs \ {DotwineDir}})

---------------------------------------------------------------------------
(* main *)

VARIABLES
  pc,                 \* where main is
  config,             \* the parsed command line
  environ,            \* os.environ
  fs,                 \* the paths that exist on the host
  host_before,        \* the paths that existed when the run began
  x11context,         \* "unset", "nullcontext" or "X11Context"
  session,            \* the nested-display session: "idle", "acquired", "released"
  mount_tasks,        \* create_bwrap_argv's mount_tasks
  sorted_mount_tasks, \* create_bwrap_argv's sorted_mount_tasks
  run_winecfg,        \* create_bwrap_argv's run_winecfg
  argv_builder,       \* the groups of the ArgvBuilder returned
  called,             \* whether subprocess.call(argv) was made
  pending,            \* the exception leaving the with block, or "none"
  exit_code,          \* main's exit_code
  status,             \* the exit status of the process, once it has one
  child,              \* the sandboxed process: "none", "exec", "ret", "exited"
  cmd,                \* the command line the innermost child process runs
  stack,              \* the shells waiting for it, innermost last
  ret,                \* the exit code being returned
  inner_runs          \* the exit codes of the runs of the innermost command

vars ==
  << pc, config, environ, fs, host_before, x11context, session, mount_tasks, sorted_mount_tasks,
     run_winecfg, argv_builder, called, pending, exit_code, status, child, cmd, stack,
     ret, inner_runs >>

mainVars == << x11context, session, called, pending, exit_code, status >>

buildVars == << mount_tasks, sorted_mount_tasks, run_winecfg, argv_builder >>

childVars == << child, cmd, stack, ret, inner_runs >>

hostVars == << config, environ, fs, host_before >>

\* signal.SIGINT
SIGINT == 2

\* Exit codes a command inside the sandbox ends with.
ExitCodes == {0, 1}

\* The state when main has parsed the command line and set exit_code = 0.
Init ==
  /\ pc = "probe"
  /\ \/ /\ config \in MountConfigs
        /\ fs \in MountHosts(config)
        /\ environ \in {e \in HostEnvirons : ENV_WINEDEBUG \notin DOMAIN e}
     \/ /\ config \in WrapperConfigs
        /\ fs \in WrapperHosts(config)
        /\ environ \in HostEnvirons
  /\ host_before = fs
  /\ x11context = "unset"
  /\ session = "idle"
  /\ mount_tasks = << >>
  /\ sorted_mount_tasks = << >>
  /\ run_winecfg = FALSE
  /\ argv_builder = << >>
  /\ called = FALSE
  /\ pending = "none"
  /\ exit_code = 0
  /\ status = None
  /\ child = "none"
  /\ cmd = << >>
  /\ stack = << >>
  /\ ret = 0
  /\ inner_runs = << >>

\* An exception main does not catch, or sys.exit(code) inside the try block
\* (SystemExit is not a KeyboardInterrupt): the process ends with the code.
Terminate(code) == pc' = "done" /\ status' = Some(code)

\* require_recent_bubblewrap
RequireRecentBubblewrap ==
  /\ pc = "probe"
  /\ \/ pc' = "x11" /\ status' = status
     \/ Terminate(1)       \* the probe exits non-zero: sys.exit(1)
     \/ Terminate(1)       \* bwrap is not installed: FileNotFoundError, uncaught
  /\ UNCHANGED << hostVars, x11context, session, called, pending, exit_code, buildVars,
                  childVars >>

\* detect_and_require_nested_x11: one of the nested servers --x11 stands for.
detect_and_require_nested_x11 == {"NXAGENT", "XEPHYR", "XNEST"}

\* X11Display.find_used: a display whose socket exists.
find_used(host_fs) == {n \in 0..1 : exists(host_fs, get_unix_socket(n))}

\* X11Display.find_unused(minimum): the first display from minimum on whose
\* socket does not exist.
find_unused(host_fs, minimum) ==
  LET free == {n \in minimum..(minimum + 1) : ~exists(host_fs, get_unix_socket(n))}
  IN {n \in free : \A m \in free : n <= m}

\* The X11 block of main: the mode, the display number and the context.
SetupX11 ==
  /\ pc = "x11"
  /\ IF X11Enabled(config)
     THEN \E mode \in (IF config.x11 = "AUTO" THEN detect_and_require_nested_x11
                       ELSE {config.x11}) :
            \E n \in (IF mode = "HOST" THEN find_used(fs)
                      ELSE find_unused(fs, IF mode = "XPRA" THEN 10 ELSE 0)) :
              /\ config' = [config EXCEPT !.x11 = mode, !.x11_display_number = Some(n)]
              /\ x11context' = "X11Context"
     ELSE /\ config' = config
          /\ x11context' = "nullcontext"
  /\ pc' = "build"
  /\ UNCHANGED << environ, fs, host_before, session, called, pending, exit_code, status,
                  buildVars, childVars >>

\* argv_builder = create_bwrap_argv(config), announce_to, argv = list(iter_flat())
CreateBwrapArgv ==
  /\ pc = "build"
  /\ \E draws \in RandomDraws :
       \E r \in {create_bwrap_argv(config, fs, environ, HostCwd, HostLinks,
                                    random_hostname(draws))} :
          /\ fs' = r.fs
          /\ mount_tasks' = r.mount_tasks
          /\ sorted_mount_tasks' = r.sorted_mount_tasks
          /\ run_winecfg' = r.run_winecfg
          /\ argv_builder' = r.groups
          /\ \/ r.outcome = "ok" /\ pc' = "with" /\ status' = status
             \/ r.outcome = "exit" /\ Terminate(1)
             \/ r.outcome = "ValueError" /\ Terminate(1)
  /\ UNCHANGED << config, environ, host_before, x11context, session, called, pending,
                  exit_code, childVars >>

\* with x11context: __enter__
EnterContext ==
  /\ pc = "with"
  /\ session' = IF x11context = "X11Context" THEN "acquired" ELSE session
  /\ pc' = "call"
  /\ UNCHANGED << hostVars, x11context, called, pending, exit_code, status, buildVars,
                  childVars >>

\* The command bwrap runs: what follows "--" in its arguments.
SandboxedCommand(argv) ==
  LET k == CHOOSE i \in 1..Len(argv) :
             argv[i] = DASHDASH /\ \A j \in 1..(i - 1) : argv[j] # DASHDASH
  IN SubSeq(argv, k + 1, Len(argv))

\* exit_code = subprocess.call(argv): the executor starts, or is not found.
SubprocessCall ==
  /\ pc = "call"
  /\ called' = TRUE
  /\ \/ /\ child' = "exec"
        /\ cmd' = SandboxedCommand(iter_flat(argv_builder))
        /\ pc' = "wait"
        /\ exit_code' = exit_code
     \/ /\ exit_code' = 127          \* except FileNotFoundError
        /\ pc' = "exitctx"
        /\ UNCHANGED << child, cmd >>
  /\ UNCHANGED << hostVars, x11context, session, pending, status, buildVars, stack, ret,
                  inner_runs >>

\* Whether the command is sh -c script "$0" "$@"
IsSh(command, script) ==
  Len(command) >= 4 /\ command[1] = SH /\ command[2] = DASH_C /\ command[3] = script

\* "$0" "$@" of a sh -c command
Positional(command) == SubSeq(command, 4, Len(command))

IsWrapper(command) ==
  \E script \in {WINESERVER_SCRIPT, WINECFG_SCRIPT, SECOND_TRY_SCRIPT} : IsSh(command, script)

\* wineserver -p0 && "$0" "$@" ; ret=$? ; wineserver -k ; exit ${ret}
ShWineserver ==
  /\ pc = "wait" /\ child = "exec" /\ IsSh(cmd, WINESERVER_SCRIPT)
  /\ \/ /\ stack' = Append(stack, [script |-> "wineserver", command |-> << >>])
        /\ cmd' = Positional(cmd)
        /\ UNCHANGED << child, ret >>
     \/ /\ \E code \in ExitCodes \ {0} : ret' = code     \* wineserver -p0 fails
        /\ child' = "ret"
        /\ UNCHANGED << cmd, stack >>
  /\ UNCHANGED << pc, hostVars, mainVars, buildVars, inner_runs >>

\* winecfg && exec "$0" "$@"
ShWinecfg ==
  /\ pc = "wait" /\ child = "exec" /\ IsSh(cmd, WINECFG_SCRIPT)
  /\ \/ /\ cmd' = Positional(cmd)
        /\ UNCHANGED << child, ret >>
     \/ /\ \E code \in ExitCodes \ {0} : ret' = code     \* winecfg fails
        /\ child' = "ret"
        /\ cmd' = cmd
  /\ UNCHANGED << pc, hostVars, mainVars, buildVars, stack, inner_runs >>

\* "$0" "$@" || exec "$0" "$@": the first run
ShSecondTry ==
  /\ pc = "wait" /\ child = "exec" /\ IsSh(cmd, SECOND_TRY_SCRIPT)
  /\ stack' = Append(stack, [script |-> "second_try", command |-> Positional(cmd)])
  /\ cmd' = Positional(cmd)
  /\ UNCHANGED << pc, hostVars, mainVars, buildVars, child, ret, inner_runs >>

\* The innermost command runs and ends with some exit code.
RunInner ==
  /\ pc = "wait" /\ child = "exec" /\ ~IsWrapper(cmd)
  /\ \E code \in ExitCodes :
       /\ inner_runs' = Append(inner_runs, code)
       /\ ret' = code
  /\ child' = "ret"
  /\ UNCHANGED << pc, hostVars, mainVars, buildVars, cmd, stack >>

\* A second-try shell that runs the command again whatever the first run gave.
SecondTryAlways(code) == "exec"

\* What the second-try shell does when its first run ends with code: "exec"
\* the command again or "exit" with the code.
SecondTryAfter(code) == IF code # 0 THEN "exec" ELSE "exit"

\* A command ends: the shell waiting for it goes on, or bwrap ends and
\* subprocess.call returns its exit code.
Return ==
  /\ pc = "wait" /\ child = "ret"
  /\ \/ /\ stack = << >>
        /\ child' = "exited"
        /\ exit_code' = ret
        /\ pc' = "exitctx"
        /\ UNCHANGED << cmd, stack >>
     \/ /\ stack # << >> /\ stack[Len(stack)].script = "wineserver"
        /\ stack' = SubSeq(stack, 1, Len(stack) - 1)
        /\ UNCHANGED << pc, exit_code, child, cmd >>
     \/ /\ stack # << >> /\ stack[Len(stack)].script = "second_try"
        /\ stack' = SubSeq(stack, 1, Len(stack) - 1)
        /\ IF SecondTryAfter(ret) = "exec"
           THEN child' = "exec" /\ cmd' = stack[Len(stack)].command
           ELSE UNCHANGED << child, cmd >>
        /\ UNCHANGED << pc, exit_code >>
  /\ UNCHANGED << hostVars, x11context, session, called, pending, status, buildVars, ret,
                  inner_runs >>

\* What leaving the with block does to the session: x11context.__exit__
ExitSession(s) == IF s = "acquired" THEN "released" ELSE s

\* The with block is left, normally or by a KeyboardInterrupt, which the
\* except clause of main then turns into the exit code.
ExitContext ==
  /\ pc = "exitctx"
  /\ session' = ExitSession(session)
  /\ exit_code' = IF pending = "KeyboardInterrupt" THEN 128 + SIGINT ELSE exit_code
  /\ pending' = "none"
  /\ pc' = "sysexit"
  /\ UNCHANGED << hostVars, x11context, called, status, buildVars, childVars >>

\* sys.exit(exit_code)
SysExit ==
  /\ pc = "sysexit"
  /\ Terminate(exit_code)
  /\ UNCHANGED << hostVars, x11context, session, called, pending, exit_code, buildVars,
                  childVars >>

\* A KeyboardInterrupt that reaches the except clause of main directly.
InterruptSkipsExit(at) == "except"

\* Where a KeyboardInterrupt raised at a place of main goes first: through
\* the exit of the with block when raised inside it, else to the except clause.
InterruptGoesTo(at) == IF at \in {"call", "wait"} THEN "exitctx" ELSE "except"

\* KeyboardInterrupt, before the with block or inside it.
Interrupt ==
  /\ \/ /\ pc \in {"probe", "x11", "build", "with"}
        /\ exit_code' = 128 + SIGINT
        /\ pc' = "sysexit"
        /\ pending' = pending
     \/ /\ pc \in {"call", "wait"}
        /\ IF InterruptGoesTo(pc) = "exitctx"
           THEN pending' = "KeyboardInterrupt" /\ pc' = "exitctx" /\ exit_code' = exit_code
           ELSE pending' = pending /\ pc' = "sysexit" /\ exit_code' = 128 + SIGINT
  /\ UNCHANGED << hostVars, x11context, session, called, status, buildVars, childVars >>

Next ==
  \/ RequireRecentBubblewrap
  \/ SetupX11
  \/ CreateBwrapArgv
  \/ EnterContext
  \/ SubprocessCall
  \/ ShWineserver
  \/ ShWinecfg
  \/ ShSecondTry
  \/ RunInner
  \/ Return
  \/ ExitContext
  \/ SysExit
  \/ Interrupt

Spec == Init /\ [][Next]_vars

---------------------------------------------------------------------------
(* What the claims are stated about *)

\* create_bwrap_argv has returned an ArgvBuilder; its groups never change after.
Built == argv_builder # << >>

\* create_bwrap_argv has just returned: the command is final and not yet run.
JustBuilt == pc = "with"

\* The mount loop of create_bwrap_argv was reached.
LoopReached == sorted_mount_tasks # << >>

\* The run ended inside create_bwrap_argv's mount loop.
AbortedInLoop == LoopReached /\ ~Built

MountFlags == {OPT_TMPFS, OPT_DEV, OPT_PROC, OPT_RO_BIND, OPT_BIND, OPT_DEV_BIND}

BindFlags == {OPT_RO_BIND, OPT_BIND, OPT_DEV_BIND}

\* The index of the first group of the command that is the "--" separator.
SeparatorIndex ==
  CHOOSE i \in 1..Len(argv_builder) :
    argv_builder[i] = <<DASHDASH>> /\ \A j \in 1..(i - 1) : argv_builder[j] # <<DASHDASH>>

\* The executor's flag groups: those before the separator.
ExecutorGroups == SubSeq(argv_builder, 1, SeparatorIndex - 1)

\* The mount flag groups of the final command, in their order.
MountGroupsBuilt ==
  LET isMount(g) == g[1] \in MountFlags IN SelectSeq(ExecutorGroups, isMount)

\* The target a mount flag group names: its last operand.
TargetOf(g) == g[Len(g)]

\* The display socket, whose missing source the loop overlooks.
Exempted(t) == X11Enabled(config) /\ t.target = x11_unix_socket(config)

\* A task that is to reach the final command: no bind, or a bind whose source
\* exists on the host, or the exempted display socket.
Kept(t) ==
  \/ t.mode \notin BindModes
  \/ exists(fs, abspath(SourceOf(t), HostCwd))
  \/ Exempted(t)

\* A bind task whose source does not exist on the host.
SourceAbsent(t) == t.mode \in BindModes /\ ~exists(fs, abspath(SourceOf(t), HostCwd))

\* The flag groups of the tasks of a list that the loop keeps, in the list's order.
GroupsOfKept(tasks) ==
  LET kept == SelectSeq(tasks, Kept) IN [k \in 1..Len(kept) |-> MountGroup(kept[k])]

\* Directory a is a proper ancestor of path b.
ParentOf(a, b) ==
  /\ single_trailing_sep(a) # single_trailing_sep(b)
  /\ StartsWith(single_trailing_sep(b), single_trailing_sep(a))

---------------------------------------------------------------------------
(* C1 *)

\* C1 as stated: the mount flag groups of the final command are in strictly
\* ascending lexical order of the normalized target (one trailing separator).
C1_NormalizedStrictOrder ==
  JustBuilt =>
    LET G == MountGroupsBuilt
    IN \A i, j \in 1..Len(G) :
         i < j => StrLess(single_trailing_sep(TargetOf(G[i])),
                          single_trailing_sep(TargetOf(G[j])))

\* C1 as amended: the mount flag groups of the final command are in ascending
\* lexical order of the target as written, and the groups of the tasks that
\* share a target are in the order in which those tasks were inserted;
\* otherwise the insertion order does not show.
C1_TargetOrder ==
  JustBuilt =>
    LET G == MountGroupsBuilt
        targets == {mount_tasks[k].target : k \in 1..Len(mount_tasks)}
    IN /\ \A i \in 1..(Len(G) - 1) : StrLeq(TargetOf(G[i]), TargetOf(G[i + 1]))
       /\ \A g \in {G[i] : i \in 1..Len(G)} : TargetOf(g) \in targets
       /\ \A T \in targets :
            LET onT(g) == TargetOf(g) = T
                atT(t) == t.target = T
            IN SelectSeq(G, onT) = GroupsOfKept(SelectSeq(mount_tasks, atT))

\* C1's case: a final command in which two neighbouring mount groups are in
\* the order of their targets and against the order of the normalized targets,
\* and in which two groups share a target.
C1_Witness ==
  /\ JustBuilt
  /\ LET G == MountGroupsBuilt
     IN /\ \E i \in 1..(Len(G) - 1) :
             /\ StrLess(TargetOf(G[i]), TargetOf(G[i + 1]))
             /\ StrLess(single_trailing_sep(TargetOf(G[i + 1])),
                        single_trailing_sep(TargetOf(G[i])))
        /\ \E i \in 1..(Len(G) - 1) : TargetOf(G[i]) = TargetOf(G[i + 1])

---------------------------------------------------------------------------
(* C2 *)

\* C2: of two mount flag groups of the final command, one whose target is a
\* parent directory of the other's target comes first.
C2_ParentFirst ==
  JustBuilt =>
    LET G == MountGroupsBuilt
    IN \A i, j \in 1..Len(G) : ParentOf(TargetOf(G[i]), TargetOf(G[j])) => i < j

\* C2's case: a parent directory that was inserted after a directory below it,
\* both in the final command.
C2_Witness ==
  /\ JustBuilt
  /\ \E a, b \in 1..Len(mount_tasks) :
       /\ a < b
       /\ ParentOf(mount_tasks[b].target, mount_tasks[a].target)
       /\ Kept(mount_tasks[a]) /\ Kept(mount_tasks[b])
       /\ mount_tasks[b].target # ROOT

---------------------------------------------------------------------------
(* C3 *)

\* A required bind task of the plan whose source is missing and which is not
\* the exempted display socket.
RequiredSourceMissing ==
  \E k \in 1..Len(sorted_mount_tasks) :
    /\ sorted_mount_tasks[k].required
    /\ ~Kept(sorted_mount_tasks[k])

\* C3: with a required task's source missing, the run has ended with exit
\* status 1, no command was built or handed to subprocess.call, and no
\* nested-display session was entered.
C3_RequiredMissingAborts ==
  (LoopReached /\ RequiredSourceMissing) =>
    /\ pc = "done"
    /\ status = Some(1)
    /\ ~Built
    /\ ~called
    /\ child = "none"
    /\ session = "idle"

\* C3's case: display enabled, a required source missing, the run over.
C3_Witness ==
  /\ LoopReached /\ RequiredSourceMissing
  /\ x11context = "X11Context"
  /\ pc = "done"

---------------------------------------------------------------------------
(* C4 *)

\* The positions in the plan of the optional tasks whose source does not exist.
OptionalSourceAbsent ==
  {k \in 1..Len(sorted_mount_tasks) :
     ~sorted_mount_tasks[k].required /\ SourceAbsent(sorted_mount_tasks[k])}

\* What C4 says of the optional tasks at the positions dropped: none has its
\* flag group in the final command, none ends the run (a run that ended in
\* the loop met a required task whose source is missing), and every task
\* behind one of them that is to be kept has its flag group in the final
\* command.
OptionalDropped(dropped) ==
  LET G == MountGroupsBuilt
  IN dropped # {} =>
       /\ AbortedInLoop => RequiredSourceMissing
       /\ JustBuilt =>
            /\ \A k \in dropped : \A i \in 1..Len(G) : G[i] # MountGroup(sorted_mount_tasks[k])
            /\ \A k \in dropped : \A j \in (k + 1)..Len(sorted_mount_tasks) :
                 Kept(sorted_mount_tasks[j]) =>
                   \E i \in 1..Len(G) : G[i] = MountGroup(sorted_mount_tasks[j])

\* C4 as stated: for every optional task whose source does not exist.
C4_OptionalMissingDropped ==
  (JustBuilt \/ AbortedInLoop) => OptionalDropped(OptionalSourceAbsent)

\* C4 as amended: for every optional task whose source does not exist and
\* whose target is not the exempted display socket.
C4_OptionalMissingDroppedUnlessExempt ==
  (JustBuilt \/ AbortedInLoop) =>
    OptionalDropped({k \in OptionalSourceAbsent : ~Exempted(sorted_mount_tasks[k])})

\* C4's case: a final command built from a plan with an optional task that
\* was dropped and a kept task behind it.
C4_Witness ==
  /\ JustBuilt
  /\ \E k, j \in 1..Len(sorted_mount_tasks) :
       /\ k < j
       /\ ~sorted_mount_tasks[k].required /\ ~Kept(sorted_mount_tasks[k])
       /\ sorted_mount_tasks[j].mode \in BindModes /\ Kept(sorted_mount_tasks[j])

---------------------------------------------------------------------------
(* C5 *)

\* The value the final command sets PATH to.
PathValueBuilt ==
  LET isPath(g) == g[1] = SETENV /\ g[2] = ENV_PATH
  IN SelectSeq(ExecutorGroups, isPath)[1][3]

\* The targets of the bind tasks in the final mount set.
BindTargetsBuilt ==
  {TargetOf(MountGroupsBuilt[i]) :
     i \in {n \in 1..Len(MountGroupsBuilt) : MountGroupsBuilt[n][1] \in BindFlags}}

\* C5: PATH holds, in their order, the canonical candidates that lie under the
\* target of a bind task of the final mount set, and no other.
C5_PathUnderKeptBinds ==
  JustBuilt =>
    LET candidate_paths == Split(environ[ENV_PATH], PATHSEP) \o <<USR_LIB_WINE>>
        real == [k \in 1..Len(candidate_paths) |->
                   realpath(candidate_paths[k], HostCwd, HostLinks)]
        visible(c) == \E target \in BindTargetsBuilt : Under(c, target)
    IN PathValueBuilt = Join(SelectSeq(real, visible), PATHSEP)

---------------------------------------------------------------------------
(* C6 and C7 *)

\* The groups of the sandboxed command: those behind the separator.
SandboxedGroups == SubSeq(argv_builder, SeparatorIndex + 1, Len(argv_builder))

\* Whether a wrapper with the script is a group of the sandboxed command.
WrapperBuilt(script) ==
  \E i \in 1..Len(SandboxedGroups) : SandboxedGroups[i] = <<SH, DASH_C, script>>

\* --dotwine names a host path of well-formed access that did not exist when
\* main started.
DotwineMissing ==
  /\ config.dotwine # None
  /\ parse_path_colon_access(config.dotwine[1]).ok
  /\ ~exists(host_before, abspath(parse_path_colon_access(config.dotwine[1]).path, HostCwd))

\* The profile directory is fresh: the tmpfs of a run without --dotwine, or
\* the directory this run created.
ProfileFresh == config.dotwine = None \/ DotwineMissing

\* C6: the setup-gate wrapper is in the final command exactly when display is
\* enabled and (--configure was given or the profile directory is fresh);
\* never when display is disabled.
C6_SetupGateExactlyWhen ==
  JustBuilt =>
    (WrapperBuilt(WINECFG_SCRIPT)
       <=> (X11Enabled(config) /\ (config.configure \/ ProfileFresh)))

---------------------------------------------------------------------------
(* C8 *)

\* C8: with retry requested the inner command runs a second time exactly
\* when its first run ended non-zero, never a third time, and a run of main
\* that ends with the child has the exit code of the last run of the inner
\* command.
C8_SecondTryOnce ==
  config.second_try =>
    /\ Len(inner_runs) <= 2
    /\ Len(inner_runs) = 2 => inner_runs[1] # 0
    /\ (child = "exited" /\ inner_runs # << >> /\ inner_runs[1] # 0) => Len(inner_runs) = 2
    /\ (child = "exited" /\ inner_runs # << >>) => exit_code = inner_runs[Len(inner_runs)]
    /\ (child = "exited" /\ inner_runs # << >> /\ pc = "done")
         => status = Some(inner_runs[Len(inner_runs)])

\* C8's case: the inner command failed, then succeeded, under the lifecycle
\* helper and the setup gate, and main ended with exit code 0.
C8_Witness ==
  /\ config.second_try
  /\ inner_runs = <<1, 0>>
  /\ pc = "done" /\ status = Some(0)
  /\ WrapperBuilt(WINESERVER_SCRIPT) /\ WrapperBuilt(WINECFG_SCRIPT)

---------------------------------------------------------------------------
(* C9 *)

\* C9: a nested-display session is acquired before the child is started,
\* held while main waits for it, released only after that, and released
\* when main ends, whichever way the with block was left.
C9_SessionReleased ==
  x11context = "X11Context" =>
    /\ (called \/ child # "none") => session # "idle"
    /\ pc \in {"call", "wait", "exitctx"} => session = "acquired"
    /\ session = "released" => pc \in {"sysexit", "done"}
    /\ pc = "done" => session # "acquired"
    /\ (pc = "done" /\ called) => session = "released"

\* C9's case: a run with a session, interrupted while main waited for the
\* child, that ended with the session released and exit code 128 + SIGINT.
C9_Witness ==
  /\ x11context = "X11Context"
  /\ pc = "done" /\ called /\ child = "exec"
  /\ status = Some(128 + SIGINT)
  /\ session = "released"

---------------------------------------------------------------------------
(* C10 *)

\* The step of the composition order that a group of the command belongs to.
StepOf(g) ==
  IF g \in {<<BWRAP>>, <<DISABLE_USERNS>>, <<DIE_WITH_PARENT>>} THEN 1
  ELSE IF g[1] = OPT_HOSTNAME THEN 2
  ELSE IF g[1] = UNSHARE_USER THEN 3
  ELSE IF g[1] \in MountFlags THEN 4
  ELSE IF g = <<CLEARENV>> THEN 5
  ELSE IF g[1] = SETENV THEN 6
  ELSE IF g = <<DASHDASH>> THEN 7
  ELSE IF g = <<SH, DASH_C, WINESERVER_SCRIPT>> THEN 8
  ELSE IF g = <<SH, DASH_C, WINECFG_SCRIPT>> THEN 9
  ELSE IF g = <<SH, DASH_C, SECOND_TRY_SCRIPT>> THEN 10
  ELSE 11

\* The positions of the final command whose group belongs to the step.
AtStep(n) == {i \in 1..Len(argv_builder) : StepOf(argv_builder[i]) = n}

\* C10: the groups of the final command are in the fixed order of steps;
\* the executor and its two safety flags, one hostname group, one group of
\* unshare flags, the mount groups, one clear-environment group, the
\* environment groups in ascending order of names, one separator, each
\* active wrapper once in the order lifecycle helper, setup gate, retry,
\* and the innermost command as the last group.
C10_FixedOrder ==
  JustBuilt =>
    LET n == Len(argv_builder) IN
    /\ \A i \in 1..(n - 1) : StepOf(argv_builder[i]) <= StepOf(argv_builder[i + 1])
    /\ SubSeq(argv_builder, 1, 3) = << <<BWRAP>>, <<DISABLE_USERNS>>, <<DIE_WITH_PARENT>> >>
    /\ AtStep(1) = 1..3
    /\ \A s \in {2, 3, 5, 7, 11} : Cardinality(AtStep(s)) = 1
    /\ \A s \in {8, 9, 10} : Cardinality(AtStep(s)) <= 1
    /\ AtStep(4) # {}
    /\ \A i, j \in AtStep(6) : i < j => StrLess(argv_builder[i][2], argv_builder[j][2])
    /\ AtStep(8) # {} <=> config.with_wine
    /\ AtStep(10) # {} <=> config.second_try
    /\ AtStep(11) = {n}
    /\ argv_builder[n] = InnerGroup(config)

\* C10's case: a final command with all three wrappers, a display variable
\* and a program run under a pseudo-terminal.
C10_Witness ==
  /\ JustBuilt
  /\ AtStep(8) # {} /\ AtStep(9) # {} /\ AtStep(10) # {}
  /\ \E i \in AtStep(6) : argv_builder[i][2] = ENV_DISPLAY
  /\ config.with_pty /\ config.argv_0 # None

=============================================================================
